---- MODULE Spec2Model ----
(***************************************************************************)
(* Model of thoth's DataFlow Graph (src/thoth/app/dfg/dfg.py): the graph   *)
(* builder (_create_blocks, _create_functions_calls, _create_edges) and    *)
(* the taint engine (_taint_variable, _taint_functions_arguments,          *)
(* _clean_tainting).                                                       *)
(*                                                                         *)
(* Objects are identified by their position in the list that owns them     *)
(* (a Variable Block is its index in variables_blocks), which is Python's  *)
(* object identity for the `in` and `==` tests of the code.  A tainting    *)
(* coefficient c is stored as the integer c * Unit, so that the product    *)
(* with PROPAGATION_COEFFICIENT = 0.7 is exact.                            *)
(***************************************************************************)
EXTENDS Integers, Sequences, FiniteSets, TLC

VARIABLES
    variables,               \* DFG.variables: the input list (dfg.py:48)
    variables_blocks,        \* DFG.variables_blocks (dfg.py:51)
    constants_blocks,        \* DFG.constants_blocks (dfg.py:52)
    functions_calls_blocks,  \* DFG.functions_calls_blocks (dfg.py:53)
    edges,                   \* DFG.edges (dfg.py:56)
    children_blocks,         \* block index -> DFGVariableBlock.children_blocks
    parents_blocks,          \* block index -> DFGVariableBlock.parents_blocks
    tainting_coefficient,    \* block index -> DFGVariableBlock.tainting_coefficient
    blocks_to_taint,         \* the work queue of _taint_variable (dfg.py:85)
    tainted_blocks,          \* the processed list of _taint_variable (dfg.py:79)
    arg_index,               \* position of the for loop of _taint_functions_arguments
    pc,                      \* position of the caller
    calls                    \* the last two taint operations the caller invoked

vars == <<variables, variables_blocks, constants_blocks, functions_calls_blocks,
          edges, children_blocks, parents_blocks, tainting_coefficient,
          blocks_to_taint, tainted_blocks, arg_index, pc, calls>>

(***************************************************************************)
(* Bounds of the model.                                                    *)
(***************************************************************************)
\* Number of decimal digits a coefficient is stored with.
CoefDigits == 8
\* Cap on the iterations of the while loop of one _taint_variable run.
MaxProcessed == 12
\* Longest multi-source payload of a VARIABLE operand drawn in Init.
MaxListLen == 2

\* Names of the variables of the analysed program, in list order.
Names == <<"a", "b", "c">>
NumVars == Len(Names)

\* The value None of Variable.function.
NoFunction == "None"
\* Functions of the analysed program: one import declaration, two bodies.
ImportFunctions == {"imp"}
BodyFunctions == {"f1", "f2"}

Unit == 10 ^ CoefDigits

(***************************************************************************)
(* Input records.  A Variable is [name, function, is_function_argument,    *)
(* value]; a value is [type, operation, callee, call_number]; an element   *)
(* of a direct expression is [type, is_list, names, ints], with type       *)
(* "VARIABLE" or "INTEGER" for an Operand and "OTHER" for anything the     *)
(* builder ignores.                                                        *)
(***************************************************************************)
NoValue == [type |-> "none", operation |-> <<>>, callee |-> NoFunction, call_number |-> 0]
CallValue(f, n) == [type |-> "call", operation |-> <<>>, callee |-> f, call_number |-> n]
ExprValue(ops) == [type |-> "expr", operation |-> ops, callee |-> NoFunction, call_number |-> 0]

VarScalar(n) == [type |-> "VARIABLE", is_list |-> FALSE, names |-> <<n>>, ints |-> <<>>]
VarList(ns) == [type |-> "VARIABLE", is_list |-> TRUE, names |-> ns, ints |-> <<>>]
IntScalar(k) == [type |-> "INTEGER", is_list |-> FALSE, names |-> <<>>, ints |-> <<k>>]
IntList(ks) == [type |-> "INTEGER", is_list |-> TRUE, names |-> <<>>, ints |-> ks]
OtherElement == [type |-> "OTHER", is_list |-> FALSE, names |-> <<>>, ints |-> <<>>]

Range(s) == {s[i] : i \in DOMAIN s}

RECURSIVE Count(_, _)
Count(s, x) ==
    IF s = <<>> THEN 0
    ELSE (IF Head(s) = x THEN 1 ELSE 0) + Count(Tail(s), x)

\* Non-empty lists of the program's names, in list order, of at most
\* MaxListLen names.
ListPayloads ==
    LET pool == Names
        sub == {s \in SUBSET (1..Len(pool)) : s # {} /\ Cardinality(s) <= MaxListLen}
        RECURSIVE Pick(_, _)
        Pick(i, s) ==
            IF i > Len(pool) THEN <<>>
            ELSE (IF i \in s THEN <<pool[i]>> ELSE <<>>) \o Pick(i + 1, s)
    IN {Pick(1, s) : s \in sub}


(***************************************************************************)
(* Graph builder.                                                          *)
(***************************************************************************)
\* dfg.py:127: a variable gets a block when its function is not None and
\* not an import.
GetsBlockNoImportTest(v) == v.function # NoFunction
GetsBlock(v) == v.function # NoFunction /\ v.function \notin ImportFunctions

\* dfg.py:132-134: the DFGVariableBlock of a variable.
NewVariableBlock(v) ==
    [name |-> v.name, function |-> v.function,
     is_function_argument |-> v.is_function_argument]

\* dfg.py:121-136: the for loop of _create_blocks, from variable i on.
RECURSIVE CreateBlocksFrom(_, _)
CreateBlocksFrom(i, blocks) ==
    IF i > Len(variables) THEN blocks
    ELSE CreateBlocksFrom(i + 1,
            IF GetsBlock(variables[i])
            THEN Append(blocks, NewVariableBlock(variables[i]))
            ELSE blocks)

\* dfg.py:142-166: the for loop of _create_functions_calls, from variable i on.
RECURSIVE CreateFunctionsCallsFrom(_, _)
CreateFunctionsCallsFrom(i, out) ==
    IF i > Len(variables) THEN out
    ELSE LET v == variables[i] IN
         CreateFunctionsCallsFrom(i + 1,
            IF v.value.type = "call"
            THEN Append(out, [value |-> v.value.callee, function |-> v.function,
                              call_number |-> v.value.call_number])
            ELSE out)

\* The blocks of variables_blocks, in list order (the range of the list
\* comprehensions of _create_edges).
AllBlocks == [k \in 1..Len(variables_blocks) |-> k]

\* dfg.py:183: the test of the destination lookup.
IsDestination(b, v) == v.function = b.function /\ v.name = b.name

\* dfg.py:198: the test of a multi-source (list) VARIABLE operand.
IsListSource(b, v, operand) ==
    v.function = b.function /\ b.name \in Range(operand.names)

\* dfg.py:204: the test of a scalar VARIABLE operand: the block named as v.
IsScalarSourceByOperand(b, v, operand) ==
    v.function = b.function /\ b.name = operand.names[1]
IsScalarSource(b, v, operand) == v.function = b.function /\ b.name = v.name

\* dfg.py:187-189: the operands of a type in a direct expression.
OperandsOfType(v, type) == SelectSeq(v.value.operation, LAMBDA o : o.type = type)

\* dfg.py:192-205: source_blocks of variable v, over its VARIABLE operands.
SourceBlocks(v) ==
    LET ops == OperandsOfType(v, "VARIABLE")
        RECURSIVE From(_)
        From(k) ==
            IF k > Len(ops) THEN <<>>
            ELSE (IF ops[k].is_list
                  THEN SelectSeq(AllBlocks, LAMBDA b : IsListSource(variables_blocks[b], v, ops[k]))
                  ELSE SelectSeq(AllBlocks, LAMBDA b : IsScalarSource(variables_blocks[b], v, ops[k])))
                 \o From(k + 1)
    IN From(1)

\* dfg.py:207-210: link every source block to the destination.
RECURSIVE LinkSources(_, _, _, _)
LinkSources(st, srcs, dest, f) ==
    IF srcs = <<>> THEN st
    ELSE LET s == Head(srcs) IN
         LinkSources(
            [st EXCEPT !.children[s] = Append(@, dest),
                       !.parents[dest] = Append(@, s),
                       !.edges = Append(@, [source_kind |-> "variable", source |-> s,
                                            destination |-> dest, function |-> f])],
            Tail(srcs), dest, f)

\* dfg.py:213-229: one new Constant Block and its edge per INTEGER operand.
RECURSIVE LinkConstants(_, _, _, _)
LinkConstants(st, ops, dest, vi) ==
    IF ops = <<>> THEN st
    ELSE LET id == Len(st.constants) IN
         LinkConstants(
            [st EXCEPT !.constants = Append(@, [value |-> Head(ops).ints[1], id |-> id,
                                                variable |-> vi,
                                                function |-> variables[vi].function]),
                       !.edges = Append(@, [source_kind |-> "constant", source |-> id + 1,
                                            destination |-> dest,
                                            function |-> variables[vi].function])],
            Tail(ops), dest, vi)

\* dfg.py:172-229: the for loop of _create_edges, from variable i on.  The
\* index [0] of an empty destination list raises IndexError (st.error).
RECURSIVE CreateEdgesFrom(_, _)
CreateEdgesFrom(i, st) ==
    IF i > Len(variables) THEN st
    ELSE LET v == variables[i] IN
         IF v.value.type # "expr" THEN CreateEdgesFrom(i + 1, st)
         ELSE LET dests == SelectSeq(AllBlocks, LAMBDA b : IsDestination(variables_blocks[b], v)) IN
              IF dests = <<>> THEN [st EXCEPT !.error = TRUE]
              ELSE LET dest == dests[1]
                       linked == LinkSources(st, SourceBlocks(v), dest, v.function)
                   IN CreateEdgesFrom(i + 1,
                         LinkConstants(linked, OperandsOfType(v, "INTEGER"), dest, i))


(***************************************************************************)
(* Taint engine.                                                           *)
(***************************************************************************)
\* dfg.py:20: Tainting.PROPAGATION_COEFFICIENT = 0.7, in tenths.
PROPAGATION_COEFFICIENT == 7

\* dfg.py:71-73: the coefficient a child gets from a parent's coefficient.
ChildCoefficientNoDecay(parent_coefficient) == parent_coefficient
ChildCoefficient(parent_coefficient) ==
    PROPAGATION_COEFFICIENT * (parent_coefficient \div 10)

\* dfg.py:71-73: the assignment of one iteration of taint_children_blocks.
WriteChildKeepFirst(coef, child, parent) ==
    IF coef[child] # 0 THEN coef
    ELSE [coef EXCEPT ![child] = ChildCoefficient(coef[parent])]
WriteChild(coef, child, parent) ==
    [coef EXCEPT ![child] = ChildCoefficient(coef[parent])]

\* dfg.py:66-73: taint_children_blocks, child k of the parent onwards.  The
\* parent's coefficient is read again at every child.
RECURSIVE TaintChildrenFrom(_, _, _)
TaintChildrenFrom(coef, parent, k) ==
    IF k > Len(children_blocks[parent]) THEN coef
    ELSE TaintChildrenFrom(WriteChild(coef, children_blocks[parent][k], parent),
                           parent, k + 1)

taint_children_blocks(coef, parent) == TaintChildrenFrom(coef, parent, 1)

\* dfg.py:90: the test before a child is put on the work queue.
NotTaintedAlways(block, tainted) == TRUE
NotTainted(block, tainted) == block \notin Range(tainted)

\* dfg.py:79-85: the start of _taint_variable.
TaintVariableStart(coef, source_block) ==
    [coef |-> [coef EXCEPT ![source_block] = Unit],
     queue |-> <<source_block>>,
     tainted |-> <<>>]

\* dfg.py:87-92: one iteration of the while loop of _taint_variable.
WhileBody(s) ==
    LET head == s.queue[1]
        tainted == Append(s.tainted, head)
        more == SelectSeq(children_blocks[head], LAMBDA b : NotTainted(b, tainted))
    IN [coef |-> taint_children_blocks(s.coef, head),
        queue |-> Tail(s.queue \o more),
        tainted |-> tainted]

\* dfg.py:86-92: the while loop of _taint_variable, run to its end.
RECURSIVE RunWhile(_)
RunWhile(s) ==
    IF s.queue = <<>> \/ Len(s.tainted) >= MaxProcessed THEN s
    ELSE RunWhile(WhileBody(s))

\* dfg.py:98-100: the for loop of _taint_functions_arguments, from block k
\* on, run to its end.
RECURSIVE TaintArgumentsFrom(_, _)
TaintArgumentsFrom(k, coef) ==
    IF k > Len(variables_blocks) THEN coef
    ELSE TaintArgumentsFrom(k + 1,
            IF variables_blocks[k].is_function_argument
            THEN RunWhile(TaintVariableStart(coef, k)).coef
            ELSE coef)

\* dfg.py:106-107: the coefficients _clean_tainting leaves.
CleanedButLast(coef) ==
    [k \in DOMAIN coef |-> IF k = Len(variables_blocks) THEN coef[k] ELSE 0]
Cleaned(coef) == [k \in DOMAIN coef |-> 0]

\* dfg.py:339-352: the edges the rendering loop draws.
RenderedEdges ==
    SelectSeq(edges, LAMBDA e :
        /\ ~(e.source_kind = "variable" /\ e.source = e.destination)
        /\ (IF e.source_kind = "variable"
            THEN variables_blocks[e.source].function
            ELSE constants_blocks[e.source].function)
           = variables_blocks[e.destination].function)

\* The caller's record of the last two taint operations it invoked.
Called(op) == IF Len(calls) < 2 THEN Append(calls, op) ELSE <<calls[2], op>>

(***************************************************************************)
(* Inputs.                                                                 *)
(***************************************************************************)
\* Values of the programs whose variables all live in one function body:
\* none, one multi-source operand, or the same single source twice.
GraphValues ==
    {NoValue}
    \cup {ExprValue(<<VarList(p)>>) : p \in ListPayloads}
    \cup {ExprValue(<<VarList(<<Names[i]>>), VarList(<<Names[i]>>)>>) : i \in 1..NumVars}

GraphInputs ==
    {[i \in 1..NumVars |->
        [name |-> Names[i], function |-> "f1",
         is_function_argument |-> arg[i], value |-> val[i]]] :
     arg \in [1..NumVars -> BOOLEAN], val \in [1..NumVars -> GraphValues]}

\* Values of the programs whose variables live anywhere: none, b = a + 3,
\* a merge with a literal list and a non-operand, a scalar next to a merge.
BuildValues(i) ==
    {NoValue,
     CallValue("f2", i),
     ExprValue(<<VarScalar("a"), IntScalar(3)>>),
     ExprValue(<<VarList(<<"a", "b">>), OtherElement, IntList(<<5, 3>>)>>),
     ExprValue(<<VarScalar("c"), IntScalar(3), VarList(<<"a", "c">>)>>)}

BuildInputs ==
    {[i \in 1..NumVars |->
        [name |-> Names[i], function |-> fn[i],
         is_function_argument |-> (i = 1), value |-> val[i]]] :
     fn \in [1..NumVars -> {NoFunction} \cup ImportFunctions \cup BodyFunctions],
     val \in {w \in [1..NumVars -> UNION {BuildValues(i) : i \in 1..NumVars}] :
                \A i \in 1..NumVars : w[i] \in BuildValues(i)}}

Inputs == GraphInputs \cup BuildInputs

(***************************************************************************)
(* The state machine.                                                      *)
(***************************************************************************)
Init ==
    /\ variables \in Inputs
    /\ variables_blocks = <<>>
    /\ constants_blocks = <<>>
    /\ functions_calls_blocks = <<>>
    /\ edges = <<>>
    /\ children_blocks = <<>>
    /\ parents_blocks = <<>>
    /\ tainting_coefficient = <<>>
    /\ blocks_to_taint = <<>>
    /\ tainted_blocks = <<>>
    /\ arg_index = 0
    /\ pc = "new"
    /\ calls = <<>>

\* dfg.py:117-136 (first call of _create_dfg, dfg.py:235).
CreateBlocks ==
    /\ pc = "new"
    /\ variables_blocks' = CreateBlocksFrom(1, <<>>)
    /\ children_blocks' = [k \in 1..Len(variables_blocks') |-> <<>>]
    /\ parents_blocks' = [k \in 1..Len(variables_blocks') |-> <<>>]
    /\ tainting_coefficient' = [k \in 1..Len(variables_blocks') |-> 0]
    /\ pc' = "blocks"
    /\ UNCHANGED <<variables, constants_blocks, functions_calls_blocks, edges,
                   blocks_to_taint, tainted_blocks, arg_index, calls>>

\* dfg.py:138-166 (second call of _create_dfg, dfg.py:236).
CreateFunctionsCalls ==
    /\ pc = "blocks"
    /\ functions_calls_blocks' = CreateFunctionsCallsFrom(1, <<>>)
    /\ pc' = "calls"
    /\ UNCHANGED <<variables, variables_blocks, constants_blocks, edges,
                   children_blocks, parents_blocks, tainting_coefficient,
                   blocks_to_taint, tainted_blocks, arg_index, calls>>

\* dfg.py:168-229 (third call of _create_dfg, dfg.py:237).  An IndexError
\* leaves what the loop had built and ends the run.
CreateEdges ==
    /\ pc = "calls"
    /\ LET st == CreateEdgesFrom(1, [children |-> children_blocks,
                                     parents |-> parents_blocks,
                                     edges |-> edges,
                                     constants |-> constants_blocks,
                                     error |-> FALSE])
       IN /\ children_blocks' = st.children
          /\ parents_blocks' = st.parents
          /\ edges' = st.edges
          /\ constants_blocks' = st.constants
          /\ pc' = IF st.error THEN "error" ELSE "idle"
    /\ UNCHANGED <<variables, variables_blocks, functions_calls_blocks,
                   tainting_coefficient, blocks_to_taint, tainted_blocks,
                   arg_index, calls>>

\* dfg.py:94-98: a call of _taint_functions_arguments enters its for loop.
TaintFunctionsArguments ==
    /\ pc = "idle"
    /\ pc' = "taint_arguments"
    /\ arg_index' = 0
    /\ calls' = Called("taint_arguments")
    /\ UNCHANGED <<variables, variables_blocks, constants_blocks,
                   functions_calls_blocks, edges, children_blocks, parents_blocks,
                   tainting_coefficient, blocks_to_taint, tainted_blocks>>

\* dfg.py:98-100: the for loop moves to the next argument block and starts
\* _taint_variable on it, or ends.
ForNextArgument ==
    /\ pc = "taint_arguments"
    /\ blocks_to_taint = <<>>
    /\ LET rest == {k \in (arg_index + 1)..Len(variables_blocks) :
                        variables_blocks[k].is_function_argument}
       IN IF rest = {}
          THEN /\ pc' = "idle"
               /\ arg_index' = 0
               /\ tainted_blocks' = <<>>
               /\ UNCHANGED <<tainting_coefficient, blocks_to_taint>>
          ELSE LET k == CHOOSE x \in rest : \A y \in rest : x <= y
                   s == TaintVariableStart(tainting_coefficient, k)
               IN /\ arg_index' = k
                  /\ tainting_coefficient' = s.coef
                  /\ blocks_to_taint' = s.queue
                  /\ tainted_blocks' = s.tainted
                  /\ pc' = pc
    /\ UNCHANGED <<variables, variables_blocks, constants_blocks,
                   functions_calls_blocks, edges, children_blocks, parents_blocks,
                   calls>>

\* dfg.py:75-85: a direct call of _taint_variable on a block.
TaintVariable(source_block) ==
    /\ pc = "idle"
    /\ LET s == TaintVariableStart(tainting_coefficient, source_block)
       IN /\ tainting_coefficient' = s.coef
          /\ blocks_to_taint' = s.queue
          /\ tainted_blocks' = s.tainted
    /\ pc' = "propagate"
    /\ calls' = Called("propagate")
    /\ UNCHANGED <<variables, variables_blocks, constants_blocks,
                   functions_calls_blocks, edges, children_blocks, parents_blocks,
                   arg_index>>

\* dfg.py:86-92: one iteration of the while loop.
WhileStep ==
    /\ pc \in {"taint_arguments", "propagate"}
    /\ blocks_to_taint # <<>>
    /\ Len(tainted_blocks) < MaxProcessed
    /\ LET s == WhileBody([coef |-> tainting_coefficient,
                           queue |-> blocks_to_taint,
                           tainted |-> tainted_blocks])
       IN /\ tainting_coefficient' = s.coef
          /\ blocks_to_taint' = s.queue
          /\ tainted_blocks' = s.tainted
    /\ UNCHANGED <<variables, variables_blocks, constants_blocks,
                   functions_calls_blocks, edges, children_blocks, parents_blocks,
                   arg_index, pc, calls>>

\* dfg.py:86: the while loop of a direct call ends and the call returns.
TaintVariableReturn ==
    /\ pc = "propagate"
    /\ blocks_to_taint = <<>>
    /\ pc' = "idle"
    /\ tainted_blocks' = <<>>
    /\ UNCHANGED <<variables, variables_blocks, constants_blocks,
                   functions_calls_blocks, edges, children_blocks, parents_blocks,
                   tainting_coefficient, blocks_to_taint, arg_index, calls>>

\* dfg.py:102-107: _clean_tainting.
CleanTainting ==
    /\ pc = "idle"
    /\ tainting_coefficient' = Cleaned(tainting_coefficient)
    /\ calls' = Called("reset")
    /\ UNCHANGED <<variables, variables_blocks, constants_blocks,
                   functions_calls_blocks, edges, children_blocks, parents_blocks,
                   blocks_to_taint, tainted_blocks, arg_index, pc>>

Next ==
    \/ CreateBlocks
    \/ CreateFunctionsCalls
    \/ CreateEdges
    \/ TaintFunctionsArguments
    \/ ForNextArgument
    \/ \E b \in DOMAIN variables_blocks : TaintVariable(b)
    \/ WhileStep
    \/ TaintVariableReturn
    \/ CleanTainting

Spec == Init /\ [][Next]_vars


(***************************************************************************)
(* Helpers of the properties.                                              *)
(***************************************************************************)
InTaintRun == pc \in {"taint_arguments", "propagate"}

\* A run of _taint_variable has emptied its queue and not yet returned.
RunEnded == InTaintRun /\ blocks_to_taint = <<>> /\ tainted_blocks # <<>>

\* The blocks reachable from s over children_blocks.
ReachableFrom(s) ==
    LET RECURSIVE Grow(_)
        Grow(S) ==
            LET T == S \cup UNION {Range(children_blocks[x]) : x \in S}
            IN IF T = S THEN S ELSE Grow(T)
    IN Grow({s})

Coef(tenths_power) ==
    LET RECURSIVE P(_)
        P(k) == IF k = 0 THEN Unit ELSE 7 * (P(k - 1) \div 10)
    IN P(tenths_power)

BlockNamed(n, f) ==
    {k \in DOMAIN variables_blocks :
        variables_blocks[k].name = n /\ variables_blocks[k].function = f}

(***************************************************************************)
(* C1.  End to end: f1 has argument a, b = a + 3, c = f2(b).               *)
(***************************************************************************)
Scenario ==
    <<[name |-> "a", function |-> "f1", is_function_argument |-> TRUE,
       value |-> NoValue],
      [name |-> "b", function |-> "f1", is_function_argument |-> FALSE,
       value |-> ExprValue(<<VarScalar("a"), IntScalar(3)>>)],
      [name |-> "c", function |-> "f1", is_function_argument |-> FALSE,
       value |-> CallValue("f2", 3)]>>

\* C1: after _create_dfg and then _taint_functions_arguments on the scenario
\* there are Variable Blocks a, b, c, exactly one Constant Block (value 3),
\* exactly one Call Block (to f2), an edge a -> b, an edge constant(3) -> b,
\* and the coefficients are a = 1.0, b = 0.7, c = 0.
C1_EndToEnd ==
    (variables = Scenario /\ pc = "idle" /\ calls = <<"taint_arguments">>) =>
        /\ [k \in DOMAIN variables_blocks |-> variables_blocks[k].name] = <<"a", "b", "c">>
        /\ Len(constants_blocks) = 1 /\ constants_blocks[1].value = 3
        /\ Len(functions_calls_blocks) = 1 /\ functions_calls_blocks[1].value = "f2"
        /\ \E i \in DOMAIN edges :
              /\ edges[i].source_kind = "variable"
              /\ edges[i].source = 1 /\ edges[i].destination = 2
        /\ \E i \in DOMAIN edges :
              /\ edges[i].source_kind = "constant"
              /\ edges[i].source = 1 /\ edges[i].destination = 2
        /\ tainting_coefficient = <<Coef(0), Coef(1), 0>>

(***************************************************************************)
(* C2.  Each reachable block is processed exactly once.                    *)
(***************************************************************************)
\* C2: during a run of _taint_variable no block is processed (appended to
\* tainted_blocks) twice, and when the run ends the processed blocks are
\* exactly the blocks reachable from the source.
C2_ProcessedExactlyOnce ==
    InTaintRun =>
        /\ \A b \in Range(tainted_blocks) : Count(tainted_blocks, b) = 1
        /\ RunEnded => Range(tainted_blocks) = ReachableFrom(tainted_blocks[1])


(***************************************************************************)
(* C3.  Termination of the taint traversal.                                *)
(***************************************************************************)
\* Programs of one function body whose first variable is an argument.
LoopInputs == {v \in GraphInputs : v[1].is_function_argument /\ ~v[NumVars].is_function_argument}

FairInit == Init /\ variables \in LoopInputs

\* The interpreter runs a started loop on: every loop step that stays
\* enabled is taken.
FairSpec ==
    /\ FairInit
    /\ [][Next]_vars
    /\ WF_vars(WhileStep)
    /\ WF_vars(ForNextArgument)
    /\ WF_vars(TaintVariableReturn)

\* C3: every started run of _taint_variable empties its work queue, and
\* every call of _taint_functions_arguments or _taint_variable returns.
C3_Terminates ==
    /\ (blocks_to_taint # <<>>) ~> (blocks_to_taint = <<>>)
    /\ InTaintRun ~> (pc = "idle")

\* A run over a graph with a cycle through its source has ended.
C3_Witness ==
    /\ RunEnded
    /\ \E b \in Range(tainted_blocks) :
          /\ b # tainted_blocks[1]
          /\ tainted_blocks[1] \in Range(children_blocks[b])
    /\ \E b \in Range(tainted_blocks) : Count(tainted_blocks, b) > 1


(***************************************************************************)
(* C4.  reset, and reset followed by taint_arguments.                      *)
(***************************************************************************)
LastCall == IF calls = <<>> THEN "none" ELSE calls[Len(calls)]

\* C4: when _clean_tainting has returned every coefficient is 0, and when
\* a _taint_functions_arguments called right after a _clean_tainting has
\* returned the coefficients are those of tainting the all-zero graph,
\* whatever they were before the reset.
C4_ResetThenTaint ==
    /\ (pc = "idle" /\ LastCall = "reset") =>
          \A k \in DOMAIN tainting_coefficient : tainting_coefficient[k] = 0
    /\ (pc = "idle" /\ calls = <<"reset", "taint_arguments">>) =>
          tainting_coefficient =
              TaintArgumentsFrom(1, [k \in DOMAIN tainting_coefficient |-> 0])

\* reset; taint_arguments has run on a graph with an argument, and a block
\* no argument reaches is back at 0.
C4_Witness ==
    /\ pc = "idle"
    /\ calls = <<"reset", "taint_arguments">>
    /\ \E k \in DOMAIN tainting_coefficient : tainting_coefficient[k] = Unit
    /\ \E k \in DOMAIN tainting_coefficient :
          /\ tainting_coefficient[k] = 0
          /\ children_blocks[k] # <<>>

(***************************************************************************)
(* C5.  Self-loops.                                                        *)
(***************************************************************************)
\* C5: a run of _taint_variable from a block that has itself among its
\* children (and no other parent) ends with the source at 1.0, and the
\* rendering loop draws no edge from a block to itself.
C5_SelfLoopExcluded ==
    /\ (/\ RunEnded
        /\ Range(parents_blocks[tainted_blocks[1]]) = {tainted_blocks[1]})
       => tainting_coefficient[tainted_blocks[1]] = Unit
    /\ \A i \in DOMAIN RenderedEdges :
          ~(RenderedEdges[i].source_kind = "variable"
            /\ RenderedEdges[i].source = RenderedEdges[i].destination)

(***************************************************************************)
(* C6.  Decay along a chain.                                               *)
(***************************************************************************)
\* A -> B -> C is a chain: each the only child of the previous and the
\* previous its only parent, A an argument, B and C not.
IsChain(A, B, C) ==
    /\ A # B /\ B # C /\ A # C
    /\ children_blocks[A] = <<B>> /\ children_blocks[B] = <<C>>
    /\ children_blocks[C] = <<>>
    /\ parents_blocks[A] = <<>> /\ parents_blocks[B] = <<A>>
    /\ parents_blocks[C] = <<B>>
    /\ variables_blocks[A].is_function_argument
    /\ ~variables_blocks[B].is_function_argument
    /\ ~variables_blocks[C].is_function_argument

\* C6: when _taint_functions_arguments has returned, a chain A -> B -> C
\* holds A = 1.0, B = 0.7 and C = 0.49.
C6_ChainDecay ==
    (pc = "idle" /\ LastCall = "taint_arguments") =>
        \A A, B, C \in DOMAIN variables_blocks :
            IsChain(A, B, C) =>
                /\ tainting_coefficient[A] = Unit
                /\ tainting_coefficient[B] = Coef(1)
                /\ tainting_coefficient[C] = Coef(2)

\* taint_arguments has returned on a chain that does not start at the
\* first block.
C6_Witness ==
    /\ pc = "idle" /\ LastCall = "taint_arguments"
    /\ \E A, B, C \in DOMAIN variables_blocks : IsChain(A, B, C) /\ A # 1

(***************************************************************************)
(* C7.  Blocks of _create_blocks.                                          *)
(***************************************************************************)
\* Indices of the input variables with a non-null, non-import function.
KeptVariables ==
    {i \in DOMAIN variables :
        variables[i].function # NoFunction /\ variables[i].function \notin ImportFunctions}

\* C7: once _create_blocks has run, variables_blocks holds one block per
\* variable with a non-null, non-import function, in input order, and no
\* block for any other variable.
C7_BlocksOfVariables ==
    pc # "new" =>
        /\ Len(variables_blocks) = Cardinality(KeptVariables)
        /\ \A k \in DOMAIN variables_blocks :
              \E i \in KeptVariables :
                 /\ Cardinality({j \in KeptVariables : j < i}) = k - 1
                 /\ variables_blocks[k].name = variables[i].name
                 /\ variables_blocks[k].function = variables[i].function
                 /\ variables_blocks[k].is_function_argument
                      = variables[i].is_function_argument
        /\ \A i \in DOMAIN variables \ KeptVariables :
              BlockNamed(variables[i].name, variables[i].function) = {}

\* Blocks were created for a list with an import variable before a kept one
\* and a null-function variable after it.
C7_Witness ==
    /\ pc # "new"
    /\ \E i, j, k \in DOMAIN variables :
          /\ i < j /\ j < k
          /\ variables[i].function \in ImportFunctions
          /\ variables[j].function \in BodyFunctions
          /\ variables[k].function = NoFunction
    /\ Len(variables_blocks) = 1


(***************************************************************************)
(* C8.  Convergent paths.                                                  *)
(***************************************************************************)
\* The step is one iteration of the while loop of _taint_variable.
IsWhileStep == InTaintRun /\ blocks_to_taint # <<>> /\ tainted_blocks' # tainted_blocks

\* C8 as claimed: when a block is processed, a child that an earlier
\* processed, different parent has written in this run keeps its
\* coefficient (first writer wins).
C8_FirstWriterWins ==
    [][IsWhileStep =>
        \A c \in Range(children_blocks[blocks_to_taint[1]]) :
            (\E p \in Range(tainted_blocks) :
                p # blocks_to_taint[1] /\ c \in Range(children_blocks[p]))
            => tainting_coefficient'[c] = tainting_coefficient[c]]_vars

\* C8 as amended: when a block without a self-loop is processed, every
\* child gets 0.7 times the block's coefficient, whether or not an earlier
\* processed parent has written it (last writer wins).
C8_LastWriterWins ==
    [][(IsWhileStep
        /\ blocks_to_taint[1] \notin Range(children_blocks[blocks_to_taint[1]])) =>
        \A c \in Range(children_blocks[blocks_to_taint[1]]) :
            tainting_coefficient'[c]
                = 7 * (tainting_coefficient[blocks_to_taint[1]] \div 10)]_vars

\* A run from A over A -> B, A -> D, B -> D has ended with D at 0.49.
C8_Witness ==
    /\ RunEnded
    /\ \E A, B, D \in DOMAIN variables_blocks :
          /\ A # B /\ B # D /\ A # D
          /\ tainted_blocks[1] = A
          /\ children_blocks[A] = <<B, D>>
          /\ children_blocks[B] = <<D>>
          /\ children_blocks[D] = <<>>
          /\ tainting_coefficient[B] = Coef(1)
          /\ tainting_coefficient[D] = Coef(2)

(***************************************************************************)
(* C9.  Edge source resolution.                                            *)
(***************************************************************************)
\* The variable a block was created for.
VariableOf(k) ==
    CHOOSE i \in KeptVariables : Cardinality({j \in KeptVariables : j < i}) = k - 1

\* The number of VARIABLE operands of variable i that name block s as a
\* source of i's block: a scalar operand names i's own block, a list
\* operand the blocks of i's function whose name it lists.
OperandsNaming(i, s) ==
    LET v == variables[i]
        ops == v.value.operation
    IN Cardinality({k \in DOMAIN ops :
          /\ ops[k].type = "VARIABLE"
          /\ variables_blocks[s].function = v.function
          /\ IF ops[k].is_list
             THEN variables_blocks[s].name \in Range(ops[k].names)
             ELSE VariableOf(s) = i})

VariableEdges(s, d) ==
    {i \in DOMAIN edges :
        /\ edges[i].source_kind = "variable"
        /\ edges[i].source = s /\ edges[i].destination = d}

\* C9: when _create_edges has returned, the edges from block s to the
\* block of variable v are one per VARIABLE operand of v naming s (a scalar
\* operand names v's own block, whatever name it references), a variable
\* without direct expression is the destination of no edge, each edge is
\* mirrored in children_blocks and parents_blocks, and source, destination
\* and edge lie in one function.
C9_EdgeSources ==
    (pc = "idle" /\ calls = <<>>) =>
        \A s, d \in DOMAIN variables_blocks :
            /\ Cardinality(VariableEdges(s, d))
                 = IF variables[VariableOf(d)].value.type = "expr"
                   THEN OperandsNaming(VariableOf(d), s) ELSE 0
            /\ Count(children_blocks[s], d) = Cardinality(VariableEdges(s, d))
            /\ Count(parents_blocks[d], s) = Cardinality(VariableEdges(s, d))
            /\ \A i \in VariableEdges(s, d) :
                  /\ variables_blocks[s].function = variables_blocks[d].function
                  /\ edges[i].function = variables_blocks[d].function

\* Edges were built for a variable with a scalar operand that references
\* another variable of its function and with a list operand that lists a
\* name of another function's variable.
C9_Witness ==
    /\ pc = "idle" /\ calls = <<>>
    /\ \E d \in DOMAIN variables_blocks :
          LET v == variables[VariableOf(d)] IN
          /\ v.value.type = "expr"
          /\ \E k \in DOMAIN v.value.operation :
                /\ v.value.operation[k].type = "VARIABLE"
                /\ ~v.value.operation[k].is_list
                /\ v.value.operation[k].names[1] # v.name
                /\ BlockNamed(v.value.operation[k].names[1], v.function) # {}
          /\ \E k \in DOMAIN v.value.operation :
                /\ v.value.operation[k].type = "VARIABLE"
                /\ v.value.operation[k].is_list
                /\ \E n \in Range(v.value.operation[k].names) :
                      /\ BlockNamed(n, v.function) = {}
                      /\ \E b \in DOMAIN variables_blocks : variables_blocks[b].name = n
          /\ VariableEdges(d, d) # {}

(***************************************************************************)
(* C10.  Destination lookup.                                               *)
(***************************************************************************)
\* C10: _create_edges after _create_blocks on the same list never misses a
\* destination block and so never fails, whatever the list (variables with
\* a direct expression and a null or import function included).
C10_NoLookupMiss == pc # "error"

====
